---- MODULE Spec2Model ----
(***************************************************************************)
(* Model of src/exposure.rs (cluspolars): the edge-induction routine       *)
(* edgeset, the process-wide thread-pool configuration set_nthreads, the   *)
(* DataFrame metrics (modularity, cpm, covered_num_nodes) and the          *)
(* Clustering / ClusteringSubset views.                                    *)
(*                                                                         *)
(* The parts do not interact, so each has its own specification (SpecEdge, *)
(* SpecPool, SpecMetric, SpecCover, SpecClus); a specification holds the   *)
(* variables of the other parts at their idle values.                      *)
(***************************************************************************)
EXTENDS Integers, Sequences, FiniteSets, TLC

VARIABLES
    nodes,          \* g.graph.nodes: node id -> its adjacency list (.edges)
    acc_num_edges,  \* g.acc_num_edges: the edge-offset table
    edgeCall,       \* the last edgeset call: its argument and what it produced
    poolBuilt,      \* rayon's global registry has been initialised
    poolThreads,    \* number of threads of the global pool (0 while not built)
    setCalls,       \* outcomes of the set_nthreads calls made so far
    workLog,        \* parallelism seen by each piece of scheduled work
    df,             \* the DataFrame the metrics are called on
    dfCall,         \* the last metric call and its result
    clus,           \* the parent Clustering (RichClustering)
    view,           \* the current ClusteringSubset (ClusteringHandle), or NoView
    clusCall        \* the last Clustering / ClusteringSubset call and its result

edgeVars == <<nodes, acc_num_edges, edgeCall>>
poolVars == <<poolBuilt, poolThreads, setCalls, workLog>>
dfVars   == <<df, dfCall>>
clusVars == <<clus, view, clusCall>>
notEdge  == <<poolVars, dfVars, clusVars>>
notPool  == <<edgeVars, dfVars, clusVars>>
notDf    == <<edgeVars, poolVars, clusVars>>
notClus  == <<edgeVars, poolVars, dfVars>>
vars     == <<nodes, acc_num_edges, edgeCall, poolBuilt, poolThreads, setCalls,
              workLog, df, dfCall, clus, view, clusCall>>

(***************************************************************************)
(* Bounds                                                                  *)
(***************************************************************************)
\* number of nodes of the graphs edgeset is run on
NumNodes == 4
\* largest thread count passed to set_nthreads
MaxThreads == 2
\* number of set_nthreads calls followed
MaxCalls == 3
\* number of pieces of parallel work followed
MaxWork == 2
\* largest number of rows of a cluster table
MaxRows == 2
\* largest value of a statistics cell (n, m, c)
MaxStat == 1
\* number of node ids the bitmaps of a cluster table range over
DfNodes == 3
\* number of nodes of the graph the clustering is over
ClusNodes == 2
\* number of cluster labels
NumLabels == 2
\* largest number of singleton clusters
MaxSingletons == 1

(***************************************************************************)
(* Helpers on sets and sequences                                           *)
(***************************************************************************)
Range(s) == {s[i] : i \in DOMAIN s}

Min(S) == CHOOSE x \in S : \A y \in S : x <= y

\* ascending iteration order of a bitmap / sorted list
RECURSIVE SortedSeq(_)
SortedSeq(S) ==
    IF S = {} THEN <<>>
    ELSE LET x == Min(S) IN <<x>> \o SortedSeq(S \ {x})

RECURSIVE SumSeq(_)
SumSeq(s) == IF s = <<>> THEN 0 ELSE Head(s) + SumSeq(Tail(s))

StrictlyIncreasing(s) == \A i \in 1..(Len(s) - 1) : s[i] < s[i + 1]

(***************************************************************************)
(* EdgeIndexer: Graph, acc_num_edges, edgeset                              *)
(***************************************************************************)
NodeIds == 0..(NumNodes - 1)

\* the undirected simple edges a graph on NodeIds may have, as <<u, v>>, u < v
EdgePairs == {p \in NodeIds \X NodeIds : p[1] < p[2]}

\* adjacency lists of the graph with edge set E: symmetric, sorted, no loops
AdjOf(E) ==
    [u \in NodeIds |->
        SortedSeq({v \in NodeIds : <<u, v>> \in E \/ <<v, u>> \in E})]

\* number of neighbours of u greater than u
NumLarger(adj, u) == Cardinality({i \in DOMAIN adj[u] : adj[u][i] > u})

\* the edge-offset table: running sum of NumLarger, length n + 1
RECURSIVE AccNumEdges(_, _)
AccNumEdges(adj, u) ==
    IF u = 0 THEN 0 ELSE AccNumEdges(adj, u - 1) + NumLarger(adj, u - 1)

\* Graph::m - the number of undirected edges
GraphM(adj) == SumSeq([i \in 1..NumNodes |-> Len(adj[i - 1])]) \div 2

\* mutant: the canonical-direction filter is dropped
LargerEdges_NoFilter(edges, u) == edges

\* edges.iter().filter(|e| u < e): the neighbours greater than u, in list order
LargerEdges(edges, u) == SelectSeq(edges, LAMBDA e : u < e)

\* mutant: every larger neighbour is kept, member of bm or not
RECURSIVE EmitFrom_NoMembership(_, _, _, _)
EmitFrom_NoMembership(larger, offset, shift, bm) ==
    IF offset >= Len(larger) THEN <<>>
    ELSE <<shift + offset>> \o EmitFrom_NoMembership(larger, offset + 1, shift, bm)

\* .enumerate().filter_map(..): what node u contributes to the iterator
RECURSIVE EmitFrom(_, _, _, _)
EmitFrom(larger, offset, shift, bm) ==
    IF offset >= Len(larger) THEN <<>>
    ELSE (IF larger[offset + 1] \in bm THEN <<shift + offset>> ELSE <<>>)
         \o EmitFrom(larger, offset + 1, shift, bm)

\* mutant: enumerate runs before the filter, so the rank counts all neighbours
RECURSIVE FlatMapEmit_RankAll(_, _, _, _)
FlatMapEmit_RankAll(us, adj, acc, bm) ==
    IF us = <<>> THEN <<>>
    ELSE LET u     == Head(us)
             edges == adj[u]
             kept  == SelectSeq([i \in 1..Len(edges) |-> <<i - 1, edges[i]>>],
                                LAMBDA oe : u < oe[2] /\ oe[2] \in bm)
         IN  [i \in 1..Len(kept) |-> acc[u] + kept[i][1]]
             \o FlatMapEmit_RankAll(Tail(us), adj, acc, bm)

\* bm.iter().flat_map(..): the whole iterator handed to from_sorted_iter
RECURSIVE FlatMapEmit(_, _, _, _)
FlatMapEmit(us, adj, acc, bm) ==
    IF us = <<>> THEN <<>>
    ELSE LET u == Head(us)
         IN  EmitFrom(LargerEdges(adj[u], u), 0, acc[u], bm)
             \o FlatMapEmit(Tail(us), adj, acc, bm)

\* RoaringTreemap::from_sorted_iter: Err unless strictly increasing
FromSortedIter(s) ==
    IF StrictlyIncreasing(s)
    THEN [ok |-> TRUE, set |-> Range(s)]
    ELSE [ok |-> FALSE, set |-> {}]

\* edgeset(g, bm): the emitted iterator, and the unwrap of from_sorted_iter
edgeset(adj, acc, bm) ==
    LET emitted == FlatMapEmit(SortedSeq(bm), adj, acc, bm)
        r       == FromSortedIter(emitted)
    IN  [called  |-> TRUE,
         bm      |-> bm,
         emitted |-> emitted,
         status  |-> IF r.ok THEN "ok" ELSE "panic",
         tm      |-> r.set]

NoEdgeCall ==
    [called |-> FALSE, bm |-> {}, emitted |-> <<>>, status |-> "none", tm |-> {}]

EdgeIdle ==
    /\ nodes = [u \in NodeIds |-> <<>>]
    /\ acc_num_edges = [u \in 0..NumNodes |-> 0]
    /\ edgeCall = NoEdgeCall

EdgeInit ==
    /\ \E E \in SUBSET EdgePairs :
          /\ nodes = AdjOf(E)
          /\ acc_num_edges = [u \in 0..NumNodes |-> AccNumEdges(AdjOf(E), u)]
    /\ edgeCall = NoEdgeCall

\* Graph::covered_edges applies edgeset to one node bitmap
Edgeset(S) ==
    /\ edgeCall' = edgeset(nodes, acc_num_edges, S)
    /\ UNCHANGED <<nodes, acc_num_edges>>
    /\ UNCHANGED notEdge

(***************************************************************************)
(* set_nthreads and rayon's global thread pool                             *)
(*                                                                         *)
(* rayon keeps one global registry per process.  build_global() installs   *)
(* it and returns Err(GlobalPoolAlreadyInitialized) when a registry is     *)
(* already there; the first parallel work of the process installs a        *)
(* default registry on its own.  num_threads(0) asks for the default       *)
(* size, which depends on the machine.                                     *)
(***************************************************************************)
ThreadArgs == 0..MaxThreads

DefaultThreads == 1..MaxThreads

PoolIdle ==
    /\ poolBuilt = FALSE
    /\ poolThreads = 0
    /\ setCalls = <<>>
    /\ workLog = <<>>

PoolInit == PoolIdle

\* set_nthreads(nthreads): ThreadPoolBuilder .. build_global().unwrap()
set_nthreads(nthreads) ==
    /\ Len(setCalls) < MaxCalls
    /\ IF ~poolBuilt
       THEN /\ poolBuilt' = TRUE
            /\ IF nthreads = 0
               THEN poolThreads' \in DefaultThreads
               ELSE poolThreads' = nthreads
            /\ setCalls' = Append(setCalls, [arg |-> nthreads, status |-> "ok"])
       ELSE \* build_global() returned Err and unwrap() panics
            /\ setCalls' = Append(setCalls, [arg |-> nthreads, status |-> "panic"])
            /\ UNCHANGED <<poolBuilt, poolThreads>>
    /\ UNCHANGED workLog
    /\ UNCHANGED notPool

\* parallel work (compute_statistics runs stats() on the global pool): it
\* runs with the registry's size and installs the default one if none is there
ScheduleWork ==
    /\ Len(workLog) < MaxWork
    /\ IF poolBuilt
       THEN UNCHANGED <<poolBuilt, poolThreads>>
       ELSE /\ poolBuilt' = TRUE
            /\ poolThreads' \in DefaultThreads
    /\ workLog' = Append(workLog,
                         [threads |-> poolThreads', after |-> Len(setCalls)])
    /\ UNCHANGED setCalls
    /\ UNCHANGED notPool

(***************************************************************************)
(* ClusDataFrame: modularity, cpm, covered_num_nodes                       *)
(*                                                                         *)
(* A DataFrame is its height and its columns by name.  A statistics cell   *)
(* is an Option: None (a null) or Some(v).  Columns are taken to carry the *)
(* dtype the cluster table gives them (n: u32, m and c: u64).              *)
(***************************************************************************)
None == <<>>

Some(v) == <<v>>

Cell == {None} \cup {Some(v) : v \in 0..MaxStat}

\* resolution values the metrics are called with
Resolutions == {1, 2}

\* graph.m() of the graph modularity is called with
TotalEdges == {2}

HasColumn(d, name) == name \in DOMAIN d.columns

\* mutant: a null is read as zero
Unwrap_OrZero(o) == [ok |-> TRUE, v |-> IF o = None THEN 0 ELSE o[1]]

\* Option::unwrap: the value, or a panic on None
Unwrap(o) ==
    IF o = None THEN [ok |-> FALSE, v |-> 0] ELSE [ok |-> TRUE, v |-> o[1]]

\* calc_modularity_resolution(ls, ds, big_l, resolution) =
\*   ls / big_l - resolution * (ds / (2 big_l))^2, as <<numerator, denominator>>
calc_modularity_resolution(ls, ds, big_l, resolution) ==
    <<4 * big_l * ls - resolution * ds * ds, 4 * big_l * big_l>>

\* calc_cpm_resolution(ls, n, resolution) = ls - resolution * C(n, 2)
calc_cpm_resolution(ls, n, resolution) ==
    ls - resolution * (IF n <= 1 THEN 0 ELSE (n * (n - 1)) \div 2)

DfOk(column)   == [status |-> "ok", column |-> column, value |-> 0]
DfValue(v)     == [status |-> "ok", column |-> <<>>, value |-> v]
DfMissing      == [status |-> "MissingColumn", column |-> <<>>, value |-> 0]
DfPanic        == [status |-> "panic", column |-> <<>>, value |-> 0]

\* the closure of modularity's map, on one row
ModularityRow(m, c, total_l, resolution) ==
    LET mv == Unwrap(m)
        cv == Unwrap(c)
    IN  IF mv.ok /\ cv.ok
        THEN [ok |-> TRUE,
              v  |-> calc_modularity_resolution(mv.v, 2 * mv.v + cv.v,
                                                total_l, resolution)]
        ELSE [ok |-> FALSE, v |-> <<>>]

\* the closure of cpm's map, on one row
CpmRow(n, m, resolution) ==
    LET mv == Unwrap(m)
        nv == Unwrap(n)
    IN  IF mv.ok /\ nv.ok
        THEN [ok |-> TRUE, v |-> calc_cpm_resolution(mv.v, nv.v, resolution)]
        ELSE [ok |-> FALSE, v |-> 0]

\* .map(..).collect(): the result column, or the panic of a row
CollectRows(rows) ==
    IF \E i \in DOMAIN rows : ~rows[i].ok
    THEN DfPanic
    ELSE DfOk([i \in DOMAIN rows |-> rows[i].v])

\* <DataFrame as ClusDataFrame>::modularity
modularity(d, total_l, resolution) ==
    IF ~HasColumn(d, "m") THEN DfMissing
    ELSE IF ~HasColumn(d, "c") THEN DfMissing
    ELSE CollectRows([i \in 1..d.height |->
            ModularityRow(d.columns["m"][i], d.columns["c"][i],
                          total_l, resolution)])

\* <DataFrame as ClusDataFrame>::cpm
cpm(d, resolution) ==
    IF ~HasColumn(d, "n") THEN DfMissing
    ELSE IF ~HasColumn(d, "m") THEN DfMissing
    ELSE CollectRows([i \in 1..d.height |->
            CpmRow(d.columns["n"][i], d.columns["m"][i], resolution)])

\* the or_else branch of covered_num_nodes: the sum of column n
SumOfN(d) ==
    IF ~HasColumn(d, "n") THEN DfMissing
    ELSE LET ns == [i \in 1..d.height |-> Unwrap(d.columns["n"][i])]
         IN  IF \E i \in DOMAIN ns : ~ns[i].ok
             THEN DfPanic
             ELSE DfValue(SumSeq([i \in DOMAIN ns |-> ns[i].v]))

\* the and_then branch of covered_num_nodes: |union of column nodes|
UnionOfNodes(d) ==
    IF ~HasColumn(d, "nodes") THEN DfMissing
    ELSE DfValue(Cardinality(UNION Range(d.columns["nodes"])))

\* <DataFrame as ClusDataFrame>::covered_num_nodes:
\* column("can_overlap").and_then(union of nodes).or_else(sum of n)
covered_num_nodes(d) ==
    LET first == IF HasColumn(d, "can_overlap")
                 THEN UnionOfNodes(d)
                 ELSE DfMissing
    IN  IF first.status = "ok" THEN first ELSE SumOfN(d)

NoDfCall ==
    [op |-> "none", total_l |-> 0, resolution |-> 0] @@ DfValue(0)

DFIdle ==
    /\ df = [height |-> 0, columns |-> <<>>]
    /\ dfCall = NoDfCall

\* tables of the metric calls: any of the columns n, m, c, with nulls
MetricInit ==
    /\ \E cols \in SUBSET {"n", "m", "c"} :
       \E h \in 0..MaxRows :
       \E f \in [cols -> [1..h -> Cell]] :
          df = [height |-> h, columns |-> f]
    /\ dfCall = NoDfCall

Modularity(total_l, resolution) ==
    /\ dfCall' = [op |-> "modularity", total_l |-> total_l,
                  resolution |-> resolution]
                 @@ modularity(df, total_l, resolution)
    /\ UNCHANGED df
    /\ UNCHANGED notDf

Cpm(resolution) ==
    /\ dfCall' = [op |-> "cpm", total_l |-> 0, resolution |-> resolution]
                 @@ cpm(df, resolution)
    /\ UNCHANGED df
    /\ UNCHANGED notDf

DfNodeIds == 0..(DfNodes - 1)

\* tables of covered_num_nodes: any of the columns n, nodes, can_overlap
CoverInit ==
    /\ \E cols \in SUBSET {"n", "nodes", "can_overlap"} :
       \E h \in 1..MaxRows :
       \E nCol \in [1..h -> Cell] :
       \E nodesCol \in [1..h -> SUBSET DfNodeIds] :
       \E ovCol \in [1..h -> BOOLEAN] :
          df = [height  |-> h,
                columns |-> [name \in cols |->
                                CASE name = "n" -> nCol
                                  [] name = "nodes" -> nodesCol
                                  [] OTHER -> ovCol]]
    /\ dfCall = NoDfCall

CoveredNumNodes ==
    /\ dfCall' = [op |-> "covered_num_nodes", total_l |-> 0, resolution |-> 0]
                 @@ covered_num_nodes(df)
    /\ UNCHANGED df
    /\ UNCHANGED notDf

(***************************************************************************)
(* Clustering and ClusteringSubset                                         *)
(*                                                                         *)
(* The clustering is over a graph on ClusNodeIds in which 2i and 2i+1 are  *)
(* adjacent.  RichClustering gives every cluster its statistics, keeps the *)
(* singleton clusters apart and never changes after construction.  A run   *)
(* builds one view and queries it: views are independent values over the   *)
(* shared clustering, so a second view would see what the first one sees.  *)
(***************************************************************************)
ClusNodeIds == 0..(ClusNodes - 1)

Labels == 0..(NumLabels - 1)

ClusAdjacent(u, v) == u # v /\ (u \div 2) = (v \div 2)

InternalDegree(S, u) == Cardinality({v \in S : ClusAdjacent(u, v)})

\* RichCluster: the member set and its statistics n, m, c, mcd, vol
RichCluster(S) ==
    LET m == Cardinality({p \in S \X S : p[1] < p[2] /\ ClusAdjacent(p[1], p[2])})
        c == Cardinality({p \in S \X (ClusNodeIds \ S) : ClusAdjacent(p[1], p[2])})
    IN  [nodes |-> S,
         n     |-> Cardinality(S),
         m     |-> m,
         c     |-> c,
         mcd   |-> Min({InternalDegree(S, u) : u \in S}),
         vol   |-> 2 * m + c]

\* ClusterSkeleton::from_cluster
from_cluster(cluster) ==
    [n |-> cluster.n, m |-> cluster.m, c |-> cluster.c,
     mcd |-> cluster.mcd, vol |-> cluster.vol]

\* the snapshot filter passes for the singleton clusters
SingletonSkeleton == [n |-> 1, m |-> 0, c |-> 0, mcd |-> 0, vol |-> 0]

\* ClusteringHandle::new: the selection and its derived fields
ClusteringHandle_new(clustering, cluster_ids, has_singletons) ==
    [cluster_ids       |-> cluster_ids,
     has_singletons    |-> has_singletons,
     covered_nodes     |-> UNION {clustering.clusters[k].nodes : k \in cluster_ids},
     node_multiplicity |->
         [n \in ClusNodeIds |->
             Cardinality({k \in cluster_ids : n \in clustering.clusters[k].nodes})]]

\* calling the Python predicate and extract::<bool> give "True" or "False",
\* or fail: the call raises ("raise") or returns no bool ("nonbool")
Fails(outcome) == outcome \in {"raise", "nonbool"}

\* the predicates filter is called with: every boolean predicate, and the
\* constant predicates made to fail (either way) on one snapshot
Predicates(snapshots) ==
    [snapshots -> {"True", "False"}]
        \cup {[s \in snapshots |-> IF s = bad THEN kind ELSE rest] :
                 bad \in snapshots, kind \in {"raise", "nonbool"},
                 rest \in {"True", "False"}}

\* the snapshots a filter call may pass to its predicate
SnapshotsOf(clustering) ==
    {from_cluster(clustering.clusters[k]) : k \in DOMAIN clustering.clusters}
        \cup {SingletonSkeleton}

NoView ==
    [built |-> "none"] @@ ClusteringHandle_new([clusters |-> <<>>], {}, FALSE)

NoClusCall ==
    [op |-> "none", status |-> "ok", produced |-> FALSE, key |-> 0,
     p |-> <<>>, synthCalls |-> 0, skeleton |-> SingletonSkeleton,
     mults |-> <<>>, value |-> 0]

ClusIdle ==
    /\ clus = [clusters |-> <<>>, singleton_clusters |-> {}]
    /\ view = NoView
    /\ clusCall = NoClusCall

ClusInit ==
    /\ \E keys \in SUBSET Labels :
       \E members \in [keys -> (SUBSET ClusNodeIds) \ {{}}] :
       \E k \in 0..MaxSingletons :
          clus = [clusters |-> [l \in keys |-> RichCluster(members[l])],
                  singleton_clusters |-> 1..k]
    /\ view = NoView
    /\ clusCall = NoClusCall

\* Clustering::__getitem__(ids): a view of the listed labels, no singletons
ClusteringGetItem(ids) ==
    /\ view.built = "none"
    /\ view' = [built |-> "list"]
               @@ ClusteringHandle_new(clus, Range(ids), FALSE)
    /\ clusCall' = [NoClusCall EXCEPT !.op = "getitem", !.produced = TRUE]
    /\ UNCHANGED clus
    /\ UNCHANGED notClus

\* mutant: the predicate's answer is inverted
Selected_Negated(clustering, p) ==
    {k \in DOMAIN clustering.clusters :
        p[from_cluster(clustering.clusters[k])] = "False"}

\* clusters.iter().filter(|(_k, v)| f(from_cluster(v))).map(|(k, _v)| k)
Selected(clustering, p) ==
    {k \in DOMAIN clustering.clusters :
        p[from_cluster(clustering.clusters[k])] = "True"}

\* Clustering::filter(f): every call of f is unwrapped, so a failing call
\* panics; the singleton snapshot is passed after all the clusters
ClusteringFilter(p) ==
    LET clusterFails ==
            \E k \in DOMAIN clus.clusters :
                Fails(p[from_cluster(clus.clusters[k])])
        singletonFails == Fails(p[SingletonSkeleton])
        has_singletons == p[SingletonSkeleton] = "True"
    IN  /\ view.built = "none"
        /\ IF clusterFails \/ singletonFails
           THEN /\ clusCall' = [NoClusCall EXCEPT
                                  !.op = "filter", !.status = "panic", !.p = p,
                                  !.synthCalls = IF clusterFails THEN 0 ELSE 1]
                /\ UNCHANGED view
           ELSE /\ view' = [built |-> "filter"]
                           @@ ClusteringHandle_new(clus, Selected(clus, p),
                                                   has_singletons)
                /\ clusCall' = [NoClusCall EXCEPT
                                  !.op = "filter", !.produced = TRUE, !.p = p,
                                  !.synthCalls = 1]
        /\ UNCHANGED clus
        /\ UNCHANGED notClus

\* ClusteringSubset::__getitem__(key): looks the key up in the clustering
SubsetGetItem(key) ==
    /\ view.built # "none"
    /\ IF key \in DOMAIN clus.clusters
       THEN clusCall' = [NoClusCall EXCEPT
                           !.op = "subset_getitem", !.key = key,
                           !.skeleton = from_cluster(clus.clusters[key])]
       ELSE clusCall' = [NoClusCall EXCEPT
                           !.op = "subset_getitem", !.key = key,
                           !.status = "KeyError"]
    /\ UNCHANGED <<clus, view>>
    /\ UNCHANGED notClus

\* mutant: the singleton count is reported whatever the flag
num_singletons_IgnoreFlag(v, clustering) ==
    Cardinality(clustering.singleton_clusters)

\* ClusteringSubset::num_singletons
num_singletons(v, clustering) ==
    IF v.has_singletons
    THEN Cardinality(clustering.singleton_clusters)
    ELSE 0

\* mutant: the singletons are never appended
node_multiplicities_NoSingletons(v, clustering) ==
    LET covered == SortedSeq(v.covered_nodes)
    IN  [i \in 1..Len(covered) |-> v.node_multiplicity[covered[i]]]

\* ClusteringSubset::node_multiplicities
node_multiplicities(v, clustering) ==
    LET covered == SortedSeq(v.covered_nodes)
        mults   == [i \in 1..Len(covered) |-> v.node_multiplicity[covered[i]]]
    IN  IF v.has_singletons
        THEN mults \o [i \in 1..num_singletons(v, clustering) |-> 1]
        ELSE mults

NumSingletons ==
    /\ view.built # "none"
    /\ clusCall' = [NoClusCall EXCEPT
                      !.op = "num_singletons",
                      !.value = num_singletons(view, clus)]
    /\ UNCHANGED <<clus, view>>
    /\ UNCHANGED notClus

NodeMultiplicities ==
    /\ view.built # "none"
    /\ clusCall' = [NoClusCall EXCEPT
                      !.op = "node_multiplicities",
                      !.mults = node_multiplicities(view, clus)]
    /\ UNCHANGED <<clus, view>>
    /\ UNCHANGED notClus

(***************************************************************************)
(* Specifications                                                          *)
(***************************************************************************)
InitEdge == EdgeInit /\ PoolIdle /\ DFIdle /\ ClusIdle

NextEdge == \E S \in SUBSET NodeIds : Edgeset(S)

SpecEdge == InitEdge /\ [][NextEdge]_vars

InitPool == EdgeIdle /\ PoolInit /\ DFIdle /\ ClusIdle

NextPool ==
    \/ \E nthreads \in ThreadArgs : set_nthreads(nthreads)
    \/ ScheduleWork

SpecPool == InitPool /\ [][NextPool]_vars

InitMetric == EdgeIdle /\ PoolIdle /\ MetricInit /\ ClusIdle

NextMetric ==
    \/ \E total_l \in TotalEdges : \E resolution \in Resolutions :
          Modularity(total_l, resolution)
    \/ \E resolution \in Resolutions : Cpm(resolution)

SpecMetric == InitMetric /\ [][NextMetric]_vars

InitCover == EdgeIdle /\ PoolIdle /\ CoverInit /\ ClusIdle

NextCover == CoveredNumNodes

SpecCover == InitCover /\ [][NextCover]_vars

InitClus == EdgeIdle /\ PoolIdle /\ DFIdle /\ ClusInit

\* label lists over the clustering's labels, repetitions allowed
IdLists == UNION {[1..k -> DOMAIN clus.clusters] : k \in 0..NumLabels}

NextClus ==
    \/ \E ids \in IdLists : ClusteringGetItem(ids)
    \/ \E p \in Predicates(SnapshotsOf(clus)) : ClusteringFilter(p)
    \/ \E key \in Labels : SubsetGetItem(key)
    \/ NumSingletons
    \/ NodeMultiplicities

SpecClus == InitClus /\ [][NextClus]_vars

(***************************************************************************)
(* Claims about edgeset                                                    *)
(***************************************************************************)
\* zero-based position of v among the neighbours of u that are greater than u
RankOf(u, v) == Cardinality({w \in Range(nodes[u]) : u < w /\ w < v})

EdgeIndex(u, v) == acc_num_edges[u] + RankOf(u, v)

Adjacent(u, v) == v \in Range(nodes[u])

InducedIndices(S) ==
    {EdgeIndex(p[1], p[2]) :
        p \in {q \in S \X S : q[1] < q[2] /\ Adjacent(q[1], q[2])}}

\* C1: edgeset(g, S) returns exactly the indices offset(u) + rank_u(v) of the
\* edges u < v with both endpoints in S: an edge's index is in the result
\* if and only if both its endpoints are in S.
C1_EdgesetIsInducedIndexSet ==
    edgeCall.called =>
        /\ edgeCall.status = "ok"
        /\ edgeCall.tm = InducedIndices(edgeCall.bm)
        /\ \A p \in EdgePairs :
              Adjacent(p[1], p[2]) =>
                  (EdgeIndex(p[1], p[2]) \in edgeCall.tm
                      <=> (p[1] \in edgeCall.bm /\ p[2] \in edgeCall.bm))

\* a proper, non-empty subset that keeps some edges and drops others
C1_Witness ==
    /\ edgeCall.called
    /\ edgeCall.bm # NodeIds
    /\ Cardinality(edgeCall.tm) >= 2
    /\ Cardinality(edgeCall.tm) < GraphM(nodes)

\* C2: on the full node set edgeset returns exactly m distinct indices, and
\* they are the integers 0 .. m-1.
C2_FullSetCoversAllIndices ==
    (edgeCall.called /\ edgeCall.bm = NodeIds) =>
        /\ edgeCall.status = "ok"
        /\ Cardinality(edgeCall.tm) = GraphM(nodes)
        /\ edgeCall.tm = 0..(GraphM(nodes) - 1)
        /\ Len(edgeCall.emitted) = GraphM(nodes)

C2_Witness ==
    /\ edgeCall.called
    /\ edgeCall.bm = NodeIds
    /\ GraphM(nodes) >= 4
    /\ edgeCall.tm = 0..(GraphM(nodes) - 1)

\* C10: the sequence of indices edgeset emits is strictly increasing for
\* every node subset (empty, single node, full set included), so
\* from_sorted_iter never rejects it and edgeset never aborts.
C10_EmittedStrictlyIncreasing ==
    edgeCall.called =>
        /\ StrictlyIncreasing(edgeCall.emitted)
        /\ edgeCall.status # "panic"

C10_Witness ==
    /\ edgeCall.called
    /\ Len(edgeCall.emitted) >= 3
    /\ edgeCall.status = "ok"
    /\ \E u \in edgeCall.bm : NumLarger(nodes, u) = 0

(***************************************************************************)
(* Claims about set_nthreads                                               *)
(***************************************************************************)
\* C6: any sequence of set_nthreads calls completes without failure, and
\* after each call the parallelism of subsequently scheduled work is the
\* value passed to the most recent call.
C6_SetNthreadsRepeatable ==
    /\ \A i \in DOMAIN setCalls : setCalls[i].status = "ok"
    /\ (setCalls # <<>> /\ setCalls[Len(setCalls)].arg > 0)
          => poolThreads = setCalls[Len(setCalls)].arg
    /\ \A j \in DOMAIN workLog :
          (workLog[j].after > 0 /\ setCalls[workLog[j].after].arg > 0)
              => workLog[j].threads = setCalls[workLog[j].after].arg

(***************************************************************************)
(* Claims about the DataFrame metrics                                      *)
(***************************************************************************)
HasNull(d, name) == \E i \in 1..d.height : d.columns[name][i] = None

\* C9: modularity without column m or c, and cpm without column n or m,
\* return a MissingColumn error and no result column; a null in a column
\* the metric reads makes the evaluation fail, with no result column.
C9_NoDefaultForMissingInput ==
    /\ dfCall.op = "modularity" =>
          /\ (~HasColumn(df, "m") \/ ~HasColumn(df, "c"))
                => (dfCall.status = "MissingColumn" /\ dfCall.column = <<>>)
          /\ (HasColumn(df, "m") /\ HasColumn(df, "c")
                /\ (HasNull(df, "m") \/ HasNull(df, "c")))
                => (dfCall.status = "panic" /\ dfCall.column = <<>>)
    /\ dfCall.op = "cpm" =>
          /\ (~HasColumn(df, "n") \/ ~HasColumn(df, "m"))
                => (dfCall.status = "MissingColumn" /\ dfCall.column = <<>>)
          /\ (HasColumn(df, "n") /\ HasColumn(df, "m")
                /\ (HasNull(df, "n") \/ HasNull(df, "m")))
                => (dfCall.status = "panic" /\ dfCall.column = <<>>)

\* cpm on a table with all columns whose first row is complete and whose
\* second row has a null n
C9_Witness ==
    /\ dfCall.op = "cpm"
    /\ DOMAIN df.columns = {"n", "m", "c"}
    /\ df.height = 2
    /\ df.columns["n"][1] # None /\ df.columns["m"][1] # None
    /\ df.columns["n"][2] = None /\ df.columns["m"][2] # None
    /\ dfCall.status = "panic"

\* C5: covered_num_nodes is |union of the nodes bitmaps| whenever the table
\* has a nodes column, and the sum of n only when it has none.
C5_CoveredIsUnionWhenNodesExist ==
    dfCall.op = "covered_num_nodes" =>
        /\ HasColumn(df, "nodes") =>
              /\ dfCall.status = "ok"
              /\ dfCall.value = Cardinality(UNION Range(df.columns["nodes"]))
        /\ (~HasColumn(df, "nodes") /\ HasColumn(df, "n") /\ ~HasNull(df, "n")) =>
              /\ dfCall.status = "ok"
              /\ dfCall.value = SumSeq([i \in 1..df.height |-> df.columns["n"][i][1]])

(***************************************************************************)
(* Claims about Clustering and ClusteringSubset                            *)
(***************************************************************************)
\* C3: lookup on a view returns the skeleton statistics only for a label of
\* the view's selection and signals NotFound (KeyError) for every other
\* label, also for one the parent clustering has but the view did not select.
C3_LookupOnlyInSelection ==
    clusCall.op = "subset_getitem" =>
        IF clusCall.key \in view.cluster_ids
        THEN /\ clusCall.status = "ok"
             /\ clusCall.skeleton = from_cluster(clus.clusters[clusCall.key])
        ELSE clusCall.status = "KeyError"

PredicateFails(p) == \E s \in DOMAIN p : p[s] \in {"raise", "nonbool"}

\* C4: when the predicate fails on a cluster snapshot or on the singleton
\* snapshot, filter hands the failure back as a recoverable FilterError and
\* produces no view.
C4_FilterFailureIsFilterError ==
    (clusCall.op = "filter" /\ PredicateFails(clusCall.p)) =>
        /\ clusCall.status = "FilterError"
        /\ ~clusCall.produced

RECURSIVE SumOfSizes(_)
SumOfSizes(ids) ==
    IF ids = {} THEN 0
    ELSE LET k == Min(ids)
         IN  Cardinality(clus.clusters[k].nodes) + SumOfSizes(ids \ {k})

\* C7: the multiplicities sum to the sum of the selected clusters' sizes
\* without singleton inclusion, and to that sum plus the number of singleton
\* clusters with it; the singleton entries are that many 1s after all the
\* regular multiplicities.
C7_MultiplicitiesSum ==
    clusCall.op = "node_multiplicities" =>
        LET mults    == clusCall.mults
            regular  == SumOfSizes(view.cluster_ids)
            covered  == Cardinality(view.covered_nodes)
            singles  == Cardinality(clus.singleton_clusters)
        IN  IF view.has_singletons
            THEN /\ SumSeq(mults) = regular + singles
                 /\ Len(mults) = covered + singles
                 /\ \A i \in (covered + 1)..Len(mults) : mults[i] = 1
                 /\ SumSeq(SubSeq(mults, 1, covered)) = regular
            ELSE /\ SumSeq(mults) = regular
                 /\ Len(mults) = covered

\* overlapping selected clusters, with singletons included
C7_Witness ==
    /\ clusCall.op = "node_multiplicities"
    /\ view.has_singletons
    /\ clus.singleton_clusters # {}
    /\ Cardinality(view.cluster_ids) >= 2
    /\ \E n \in view.covered_nodes : view.node_multiplicity[n] >= 2

\* C8: filter(p) selects exactly the labels whose snapshot satisfies p, sets
\* the singleton flag to p of the singleton snapshot, which it evaluates
\* once; a view built from a label list has no singletons and reports
\* num_singletons() = 0.
C8_FilterSelectsByPredicate ==
    /\ (clusCall.op = "filter" /\ ~PredicateFails(clusCall.p)) =>
          /\ clusCall.produced
          /\ view.built = "filter"
          /\ view.cluster_ids =
                {k \in DOMAIN clus.clusters :
                    clusCall.p[[n   |-> clus.clusters[k].n,
                                m   |-> clus.clusters[k].m,
                                c   |-> clus.clusters[k].c,
                                mcd |-> clus.clusters[k].mcd,
                                vol |-> clus.clusters[k].vol]] = "True"}
          /\ view.has_singletons =
                (clusCall.p[[n |-> 1, m |-> 0, c |-> 0, mcd |-> 0, vol |-> 0]]
                    = "True")
          /\ clusCall.synthCalls = 1
    /\ view.built = "list" =>
          /\ ~view.has_singletons
          /\ clusCall.op = "num_singletons" => clusCall.value = 0

\* a filter that keeps one of two clusters and includes the singletons
C8_Witness ==
    /\ clusCall.op = "filter"
    /\ clusCall.produced
    /\ view.cluster_ids # {}
    /\ view.cluster_ids # DOMAIN clus.clusters
    /\ view.has_singletons
    /\ clus.singleton_clusters # {}
====
